---- MODULE Spec2Model ----
(***************************************************************************)
(* cursor-clamp: the polling loop of src/main.rs.                          *)
(*                                                                         *)
(* The program state is the locals of main (mouse_position, mouse_pressed, *)
(* last_mouse_pressed, button, processes, active_process) and its position *)
(* in the loop (pc).  The operating system is modelled by the foreground   *)
(* application, the pointer coordinates and the state of the watched       *)
(* button, which change between any two steps of the program.              *)
(* The variables calls, logged and the start*/edge*/run* ones record what  *)
(* the current tick has done, so that per-tick properties can be stated.   *)
(***************************************************************************)
EXTENDS Integers, Sequences, FiniteSets, TLC

VARIABLES
    pc,                 \* position of main: "parse", "exited", "focus", "button",
                        \* "capture", "release", "focus_lost", "sleep"
    opts_button,        \* opts.button, the --button argument
    button,             \* virtual-key code selected by --button (0 before parsing)
    interval,           \* Duration::from_millis(opts.interval) (0 before parsing)
    processes,          \* opts.processes, the watched process names
    mouse_position,     \* let mut mouse_position = (0, 0)
    mouse_pressed,      \* let mut mouse_pressed = false   (the spec's "held")
    last_mouse_pressed, \* let mut last_mouse_pressed = false
    active_process,     \* result of get_active_process() in the current tick
    handles,            \* process handles opened by OpenProcess and not closed (capped)
    foreground,         \* OS: name of the process owning the foreground window
    cursor,             \* OS: pointer coordinates
    keyDown,            \* OS: the watched button is physically down
    keyLatch,           \* OS: the watched button went down since the last GetAsyncKeyState
    calls,              \* probe calls made in the current tick, in order
    logged,             \* log events emitted in the current tick, in order
    startHeld,          \* mouse_pressed at the start of the current tick
    startPos,           \* mouse_position at the start of the current tick
    prevPressedInScope, \* the previous tick observed in_scope AND pressed
    runOpen,            \* the latest tick with a determinate focus observed in_scope AND pressed
    edgeRead,           \* result of get_mouse_position() at the latest capture edge
    lastGood,           \* result of the latest successful get_mouse_position()
    writesSinceCapture, \* set_mouse_position calls since the latest capture edge (capped)
    lastSleep,          \* duration of the sleep that preceded the current tick, if any
    posBalance,         \* position reads attempted minus position writes attempted (capped)
    downSinceLoss       \* the button has stayed down since a focus-loss release

vars == << pc, handles, opts_button, button, interval, processes, mouse_position,
           mouse_pressed, last_mouse_pressed,
           active_process, foreground, cursor, keyDown, keyLatch, calls, logged,
           startHeld, startPos, prevPressedInScope, runOpen, edgeRead, lastGood,
           writesSinceCapture, lastSleep, posBalance, downSinceLoss >>

progVars == << handles, opts_button, button, interval, processes, mouse_position,
               mouse_pressed, last_mouse_pressed,
               active_process >>

osVars == << foreground, cursor, keyDown, keyLatch >>

tickVars == << calls, logged, startHeld, startPos, prevPressedInScope, runOpen,
               edgeRead, lastGood, writesSinceCapture, lastSleep, posBalance,
               downSinceLoss >>

----------------------------------------------------------------------------
(* Bounds of the model *)

MaxX == 1
MaxY == 1
MaxButtonArg == 4
MaxInterval == 1
MaxHandles == 2
BalanceCap == 2
WriteCap == 2

(* Program constants *)

LEFT_MOUSE_BUTTON == 1
RIGHT_MOUSE_BUTTON == 2
MIDDLE_MOUSE_BUTTON == 4

Positions == (0 .. MaxX) \X (0 .. MaxY)

AppNames == {"Game.exe", "Other.exe"}

NoWindow == ""

ButtonArgs == 0 .. MaxButtonArg

Intervals == 0 .. MaxInterval

(* Option<T> and Result<T, Error>: the empty sequence is None / Err *)
None == << >>
Some(v) == << v >>
IsSome(o) == o # << >>

----------------------------------------------------------------------------
(* The Environment Probe *)

\* get_active_process: its result and whether OpenProcess returned a handle.
\* None when OpenProcess fails (always so without a foreground window), None
\* when the image name cannot be read, otherwise the file name of the
\* foreground window's process.  No path closes the handle.
get_active_process ==
    {[res |-> None, opened |-> FALSE]}
      \cup (IF foreground # NoWindow
              THEN {[res |-> None, opened |-> TRUE],
                    [res |-> Some(foreground), opened |-> TRUE]}
              ELSE {})

\* handles held after a call of get_active_process that opened one or not
HandlesAfter(opened) ==
    IF opened /\ handles < MaxHandles THEN handles + 1 ELSE handles

\* GetAsyncKeyState(button) != 0: the key is down now, or it went down
\* since the previous call.
get_mouse_button_pressed == keyDown \/ keyLatch

\* get_mouse_position: Err(GetMousePosition) or Ok((point.x, point.y))
get_mouse_position == {None, Some(cursor)}

\* the pointer after set_mouse_position(x, y) returned ok (TRUE) or an error
set_mouse_position(x, y, ok) == IF ok THEN << x, y >> ELSE cursor

FocusCall(res) == [op |-> "focus", res |-> res]
\* down: whether the button was physically down when the call was made
ButtonCall(arg, res, down) == [op |-> "button", arg |-> arg, res |-> res, down |-> down]
ReadCall(res) == [op |-> "read", res |-> res]
WriteCall(arg, ok) == [op |-> "write", arg |-> arg, ok |-> ok]

LogError(msg) == [level |-> "error", msg |-> msg]
LogInfo(msg, pos) == [level |-> "info", msg |-> msg, pos |-> pos]

----------------------------------------------------------------------------
Init ==
    /\ pc = "parse"
    /\ opts_button \in ButtonArgs
    /\ button = 0
    /\ interval = 0
    /\ processes = {}
    /\ mouse_position = << 0, 0 >>
    /\ mouse_pressed = FALSE
    /\ last_mouse_pressed = FALSE
    /\ active_process = None
    /\ handles = 0
    /\ foreground \in AppNames \cup {NoWindow}
    /\ cursor \in Positions
    /\ keyDown \in BOOLEAN
    /\ keyLatch \in BOOLEAN
    /\ calls = << >>
    /\ logged = << >>
    /\ startHeld = FALSE
    /\ startPos = << 0, 0 >>
    /\ prevPressedInScope = FALSE
    /\ runOpen = FALSE
    /\ edgeRead = None
    /\ lastGood = None
    /\ writesSinceCapture = 0
    /\ lastSleep = None
    /\ posBalance = 0
    /\ downSinceLoss = FALSE

----------------------------------------------------------------------------
(* main, before the loop: Opts::parse() and the match on opts.button *)

\* line 109-117: the match on opts.button; None is the `_` arm
M_SelectButton_LeftRightSwapped(b) ==
    CASE b = 1 -> Some(RIGHT_MOUSE_BUTTON)
      [] b = 2 -> Some(LEFT_MOUSE_BUTTON)
      [] b = 3 -> Some(MIDDLE_MOUSE_BUTTON)
      [] OTHER -> None

SelectButton(b) ==
    CASE b = 1 -> Some(LEFT_MOUSE_BUTTON)
      [] b = 2 -> Some(RIGHT_MOUSE_BUTTON)
      [] b = 3 -> Some(MIDDLE_MOUSE_BUTTON)
      [] OTHER -> None

\* line 107-121: a valid --button; the loop is entered
ParseOk ==
    /\ pc = "parse"
    /\ IsSome(SelectButton(opts_button))
    /\ button' = SelectButton(opts_button)[1]
    /\ \E ps \in SUBSET AppNames : processes' = ps
    /\ \E ms \in Intervals : interval' = ms
    /\ pc' = "focus"
    /\ UNCHANGED << handles, opts_button, mouse_position, mouse_pressed, last_mouse_pressed,
                    active_process >>
    /\ UNCHANGED osVars
    /\ UNCHANGED tickVars

\* line 113-116: any other --button; log the error and return from main
ParseInvalid ==
    /\ pc = "parse"
    /\ ~IsSome(SelectButton(opts_button))
    /\ logged' = Append(logged, LogError("Invalid button value"))
    /\ pc' = "exited"
    /\ UNCHANGED progVars
    /\ UNCHANGED osVars
    /\ UNCHANGED << calls, startHeld, startPos, prevPressedInScope, runOpen, edgeRead,
                    lastGood, writesSinceCapture, lastSleep, posBalance, downSinceLoss >>

----------------------------------------------------------------------------
(* One tick of the loop *)

\* line 125-126, 147, 156: where main goes after get_active_process() returned res
M_AfterFocus_IgnoreFocusLoss(res) ==
    IF IsSome(res)
      THEN IF res[1] \in processes THEN "button" ELSE "sleep"
      ELSE "sleep"

M_AfterFocus_FailureReleases(res) ==
    IF IsSome(res) /\ res[1] \in processes THEN "button"
    ELSE IF mouse_pressed THEN "focus_lost"
    ELSE "sleep"

M_AfterFocus_FailureInScope(res) ==
    IF IsSome(res) /\ res[1] \notin processes
      THEN IF mouse_pressed THEN "focus_lost" ELSE "sleep"
      ELSE "button"

M_AfterFocus_FailureExits(res) ==
    IF IsSome(res)
      THEN IF res[1] \in processes THEN "button"
           ELSE IF mouse_pressed THEN "focus_lost"
           ELSE "sleep"
      ELSE "exited"

M_AfterFocus_PollsOutOfScope(res) ==
    IF IsSome(res)
      THEN IF res[1] \in processes \/ ~mouse_pressed THEN "button" ELSE "focus_lost"
      ELSE "sleep"

M_AfterFocus_AlwaysRestore(res) ==
    IF IsSome(res)
      THEN IF res[1] \in processes THEN "button" ELSE "focus_lost"
      ELSE "sleep"

AfterFocus(res) ==
    IF IsSome(res)
      THEN IF res[1] \in processes THEN "button"
           ELSE IF mouse_pressed THEN "focus_lost"
           ELSE "sleep"
      ELSE "sleep"

\* line 124-126, 147, 156-158: query the focus and branch on it
FocusStep ==
    /\ pc = "focus"
    /\ \E out \in get_active_process :
          /\ handles' = HandlesAfter(out.opened)
          /\ active_process' = out.res
          /\ calls' = Append(calls, FocusCall(out.res))
          /\ logged' = IF IsSome(out.res) THEN logged
                        ELSE Append(logged, LogError("Failed to get active process"))
          /\ pc' = AfterFocus(out.res)
    /\ UNCHANGED << opts_button, button, interval, processes, mouse_position,
                    mouse_pressed, last_mouse_pressed >>
    /\ UNCHANGED osVars
    /\ UNCHANGED << startHeld, startPos, prevPressedInScope, runOpen, edgeRead, lastGood,
                    writesSinceCapture, lastSleep, posBalance, downSinceLoss >>

\* line 127-128, 137: where main goes after get_mouse_button_pressed() returned pressed
M_AfterButton_Recapture(pressed) ==
    IF pressed THEN "capture"
    ELSE IF mouse_pressed THEN "release" ELSE "sleep"

M_AfterButton_RestoreWhenUp(pressed) ==
    IF pressed
      THEN IF ~mouse_pressed THEN "capture" ELSE "sleep"
      ELSE "release"

AfterButton(pressed) ==
    IF pressed
      THEN IF ~mouse_pressed THEN "capture" ELSE "sleep"
      ELSE IF mouse_pressed THEN "release" ELSE "sleep"

\* line 127-128, 137: query the button and branch on it and on mouse_pressed
ButtonStep ==
    /\ pc = "button"
    /\ LET pressed == get_mouse_button_pressed IN
          /\ calls' = Append(calls, ButtonCall(button, pressed, keyDown))
          /\ pc' = AfterButton(pressed)
    /\ keyLatch' = FALSE
    /\ UNCHANGED progVars
    /\ UNCHANGED << foreground, cursor, keyDown >>
    /\ UNCHANGED << logged, startHeld, startPos, prevPressedInScope, runOpen, edgeRead,
                    lastGood, writesSinceCapture, lastSleep, posBalance, downSinceLoss >>

\* line 131-133: mouse_position after get_mouse_position() returned res
M_Remembered_ResetOnError(res) == IF IsSome(res) THEN res[1] ELSE << 0, 0 >>

M_Remembered_Dropped(res) == mouse_position

Remembered(res) == IF IsSome(res) THEN res[1] ELSE mouse_position

\* line 129-135: the capture edge
CaptureStep ==
    /\ pc = "capture"
    /\ mouse_pressed' = TRUE
    /\ \E res \in get_mouse_position :
          /\ mouse_position' = Remembered(res)
          /\ calls' = Append(calls, ReadCall(res))
          /\ edgeRead' = res
          /\ lastGood' = IF IsSome(res) THEN res ELSE lastGood
    /\ logged' = Append(logged, LogInfo("Remembering mouse position", mouse_position'))
    /\ writesSinceCapture' = 0
    /\ posBalance' = IF posBalance < BalanceCap THEN posBalance + 1 ELSE posBalance
    /\ pc' = "sleep"
    /\ UNCHANGED << handles, opts_button, button, interval, processes, last_mouse_pressed,
                    active_process >>
    /\ UNCHANGED osVars
    /\ UNCHANGED << startHeld, startPos, prevPressedInScope, runOpen, lastSleep,
                    downSinceLoss >>

\* line 141, 150: the arguments of set_mouse_position
M_RestoreTarget_Swapped == << mouse_position[2], mouse_position[1] >>

RestoreTarget == << mouse_position[1], mouse_position[2] >>

\* line 138, 148: mouse_pressed after a restore whose write returned ok
M_HeldAfterRestore_Stays(ok) == TRUE

M_HeldAfterRestore_RetryOnError(ok) == ~ok

HeldAfterRestore(ok) == FALSE

\* line 138-145 and 148-154: clear mouse_pressed, restore the pointer, log
Restore ==
    \E ok \in BOOLEAN :
       /\ mouse_pressed' = HeldAfterRestore(ok)
       /\ cursor' = set_mouse_position(RestoreTarget[1], RestoreTarget[2], ok)
       /\ calls' = Append(calls, WriteCall(RestoreTarget, ok))
       /\ logged' = IF ok
                      THEN Append(logged, LogInfo("Set mouse position", mouse_position))
                      ELSE logged \o << LogError("Failed to set mouse position"),
                                        LogInfo("Set mouse position", mouse_position) >>
       /\ writesSinceCapture' = IF writesSinceCapture < WriteCap
                                  THEN writesSinceCapture + 1 ELSE WriteCap
       /\ posBalance' = IF posBalance > -BalanceCap THEN posBalance - 1 ELSE posBalance
       /\ downSinceLoss' = (pc = "focus_lost" /\ keyDown)
       /\ pc' = "sleep"
       /\ UNCHANGED << handles, opts_button, button, interval, processes, mouse_position,
                       last_mouse_pressed, active_process >>
       /\ UNCHANGED << foreground, keyDown, keyLatch >>
       /\ UNCHANGED << startHeld, startPos, prevPressedInScope, runOpen, edgeRead,
                       lastGood, lastSleep >>

\* line 137-146: the button was released while in scope
ReleaseStep ==
    /\ pc = "release"
    /\ Restore

\* line 147-155: the focus moved to an unwatched application while holding
FocusLostStep ==
    /\ pc = "focus_lost"
    /\ Restore

\* in_scope AND pressed, as observed by the probes of the current tick
InScope == IsSome(active_process) /\ active_process[1] \in processes
ButtonRead == \E i \in 1 .. Len(calls) : calls[i].op = "button"
Pressed == \E i \in 1 .. Len(calls) : calls[i].op = "button" /\ calls[i].res
PressedInScope == InScope /\ Pressed

\* line 164: the duration handed to tokio::time::sleep
SleepDuration == interval

\* line 160-164: update last_mouse_pressed, sleep, start the next tick
SleepStep ==
    /\ pc = "sleep"
    /\ last_mouse_pressed' = mouse_pressed
    /\ pc' = "focus"
    /\ calls' = << >>
    /\ logged' = << >>
    /\ startHeld' = mouse_pressed
    /\ startPos' = mouse_position
    /\ prevPressedInScope' = PressedInScope
    /\ runOpen' = IF IsSome(active_process) THEN PressedInScope ELSE runOpen
    /\ lastSleep' = Some(SleepDuration)
    /\ UNCHANGED << handles, opts_button, button, interval, processes, mouse_position,
                    mouse_pressed, active_process >>
    /\ UNCHANGED osVars
    /\ UNCHANGED << edgeRead, lastGood, writesSinceCapture, posBalance, downSinceLoss >>

----------------------------------------------------------------------------
(* The operating system and the user *)

MovePointer ==
    /\ \E p \in Positions \ {cursor} : cursor' = p
    /\ UNCHANGED << pc, foreground, keyDown, keyLatch >>
    /\ UNCHANGED progVars
    /\ UNCHANGED tickVars

PressButton ==
    /\ ~keyDown
    /\ keyDown' = TRUE
    /\ keyLatch' = TRUE
    /\ UNCHANGED << pc, foreground, cursor >>
    /\ UNCHANGED progVars
    /\ UNCHANGED tickVars

ReleaseButton ==
    /\ keyDown
    /\ keyDown' = FALSE
    /\ UNCHANGED << pc, foreground, cursor, keyLatch >>
    /\ UNCHANGED progVars
    /\ downSinceLoss' = FALSE
    /\ UNCHANGED << calls, logged, startHeld, startPos, prevPressedInScope, runOpen,
                    edgeRead, lastGood, writesSinceCapture, lastSleep, posBalance >>

\* another process calls GetAsyncKeyState and consumes the "pressed since" bit
OtherQuery ==
    /\ keyLatch
    /\ keyLatch' = FALSE
    /\ UNCHANGED << pc, foreground, cursor, keyDown >>
    /\ UNCHANGED progVars
    /\ UNCHANGED tickVars

SwitchFocus ==
    /\ \E f \in (AppNames \cup {NoWindow}) \ {foreground} : foreground' = f
    /\ UNCHANGED << pc, cursor, keyDown, keyLatch >>
    /\ UNCHANGED progVars
    /\ UNCHANGED tickVars

----------------------------------------------------------------------------
Next ==
    \/ ParseOk
    \/ ParseInvalid
    \/ FocusStep
    \/ ButtonStep
    \/ CaptureStep
    \/ ReleaseStep
    \/ FocusLostStep
    \/ SleepStep
    \/ MovePointer
    \/ PressButton
    \/ ReleaseButton
    \/ OtherQuery
    \/ SwitchFocus

Spec == Init /\ [][Next]_vars

----------------------------------------------------------------------------
(* What the current tick has done *)

TickDone == pc = "sleep"
ReadIdx == {i \in 1 .. Len(calls) : calls[i].op = "read"}
WriteIdx == {i \in 1 .. Len(calls) : calls[i].op = "write"}
Reads == Cardinality(ReadIdx)
Writes == Cardinality(WriteIdx)
WroteOnce(pos) == Writes = 1 /\ \A i \in WriteIdx : calls[i].arg = pos
WriteFailed == \E i \in WriteIdx : ~calls[i].ok
FocusFailed == Len(calls) >= 1 /\ calls[1].op = "focus" /\ ~IsSome(calls[1].res)
UnwatchedFocus == IsSome(active_process) /\ active_process[1] \notin processes
ReleaseObserved == UnwatchedFocus \/ (InScope /\ ButtonRead /\ ~Pressed)
HasLog(level, msg) == \E i \in 1 .. Len(logged) : logged[i].level = level /\ logged[i].msg = msg
MissingCaptureLogged ==
    \E i \in 1 .. Len(logged) :
       logged[i].msg \notin {"Set mouse position", "Failed to set mouse position"}
Leftover == IF IsSome(lastGood) THEN lastGood[1] ELSE << 0, 0 >>

----------------------------------------------------------------------------
(* C1 as stated: in a run of consecutive ticks that observe in_scope AND   *)
(* pressed, where a tick whose focus query failed ends the run, the        *)
(* position is read exactly once, on the first tick, and not changed after *)
CE_C1_CaptureOnceFailureEndsRun ==
    (TickDone /\ PressedInScope) =>
        IF prevPressedInScope
          THEN Reads = 0 /\ mouse_position = startPos
          ELSE Reads = 1

(* C1 amended: a run of ticks observing in_scope AND pressed begins at     *)
(* startup or after a tick with a determinate focus that did not observe   *)
(* in_scope AND pressed; ticks whose focus query failed neither end a run  *)
(* nor start one.  The position is read exactly once, on the first tick of *)
(* the run, and mouse_position does not change on its later ticks.         *)
T_C1_CaptureOnce ==
    (TickDone /\ PressedInScope) =>
        IF runOpen
          THEN Reads = 0 /\ mouse_position = startPos
          ELSE Reads = 1

W_C1_RunAcrossFocusFailure ==
    /\ TickDone /\ PressedInScope
    /\ runOpen /\ ~prevPressedInScope
    /\ Reads = 0
    /\ cursor # mouse_position

(* C2 release restores: a tick that starts with held and observes a        *)
(* release edge writes the captured position exactly once and clears held; *)
(* there is at most one write after each capture edge.                     *)
T_C2_ReleaseRestores ==
    /\ (TickDone /\ startHeld /\ ReleaseObserved) =>
          (WroteOnce(startPos) /\ ~mouse_pressed)
    /\ writesSinceCapture <= 1

W_C2_ButtonReleased ==
    /\ TickDone /\ startHeld /\ InScope /\ ButtonRead /\ ~Pressed
    /\ startPos # << 0, 0 >>
    /\ WroteOnce(startPos)
    /\ cursor = startPos

(* C3 no spurious writes: a tick that writes the pointer started with held *)
(* and has cleared it.                                                     *)
T_C3_NoSpuriousWrites ==
    Writes > 0 => (startHeld /\ ~mouse_pressed /\ Writes = 1)

W_C3_WriteOnReleaseEdge ==
    Writes = 1 /\ startHeld /\ ~mouse_pressed /\ TickDone

(* C4 focus-loss safety: a tick that starts with held and finds the focus  *)
(* on an unwatched application restores the captured position once and     *)
(* clears held, without looking at the button.                             *)
T_C4_FocusLossSafety ==
    (TickDone /\ startHeld /\ UnwatchedFocus) =>
        (WroteOnce(startPos) /\ ~mouse_pressed /\ ~ButtonRead)

W_C4_FocusLostButtonDown ==
    /\ TickDone /\ startHeld /\ UnwatchedFocus
    /\ keyDown
    /\ WroteOnce(startPos)

(* C5 as stated: when no position was ever captured, the release edge      *)
(* clears held without writing the pointer and logs the missing capture.   *)
CE_C5_MissingCaptureSkipsRestore ==
    (TickDone /\ startHeld /\ ~mouse_pressed /\ ~IsSome(lastGood)) =>
        (Writes = 0 /\ MissingCaptureLogged)

(* C6 write failure still releases: a tick whose restore write failed has  *)
(* cleared held, logged the failure and written only once; the write is    *)
(* not repeated before the next capture edge.                              *)
T_C6_WriteFailureReleases ==
    /\ WriteFailed =>
          /\ TickDone
          /\ ~mouse_pressed
          /\ Writes = 1
          /\ HasLog("error", "Failed to set mouse position")
    /\ writesSinceCapture <= 1

W_C6_FailedWrite ==
    /\ WriteFailed /\ TickDone /\ ~mouse_pressed
    /\ cursor # mouse_position

(* C7 as stated: a tick whose focus query failed behaves as a tick out of  *)
(* scope: it releases when held, does nothing otherwise, and logs.         *)
CE_C7_FocusFailureReleases ==
    FocusFailed =>
        /\ HasLog("error", "Failed to get active process")
        /\ pc = "sleep"
        /\ IF startHeld
             THEN WroteOnce(startPos) /\ ~mouse_pressed
             ELSE Writes = 0 /\ ~mouse_pressed

(* C7 amended: a tick whose focus query failed logs the failure and goes   *)
(* on to the sleep; it does nothing else whether held or not: no restore   *)
(* write, held and the captured position as they were.                     *)
T_C7_FocusFailureDoesNothing ==
    FocusFailed =>
        /\ HasLog("error", "Failed to get active process")
        /\ pc = "sleep"
        /\ Writes = 0
        /\ mouse_pressed = startHeld
        /\ mouse_position = startPos

W_C7_FocusFailureWhileHeld ==
    /\ FocusFailed /\ startHeld /\ mouse_pressed
    /\ cursor # mouse_position

(* C8 focus-query failure does not release: such a tick makes no other     *)
(* probe call and leaves held and the captured position alone; a hold ends *)
(* only in a tick that saw an unwatched focus or, in scope, the button up. *)
T_C8_FocusFailureKeepsHold ==
    /\ (TickDone /\ ~IsSome(active_process)) =>
          /\ calls = << FocusCall(None) >>
          /\ mouse_pressed = startHeld
          /\ mouse_position = startPos
    /\ (TickDone /\ startHeld /\ ~mouse_pressed) => ReleaseObserved

W_C8_HoldSurvivesFailure ==
    /\ TickDone /\ ~IsSome(active_process)
    /\ startHeld /\ mouse_pressed
    /\ ~keyDown

(* C9 as stated: while held, the captured position was read at the latest  *)
(* capture edge.                                                           *)
CE_C9_HeldImpliesFreshCapture ==
    mouse_pressed => (IsSome(edgeRead) /\ mouse_position = edgeRead[1])

(* C9 amended: while held, the captured position is the one read at the    *)
(* latest capture edge if that read succeeded; if it failed, it is the     *)
(* result of the latest earlier successful read, or (0, 0) without one.    *)
T_C9_HeldCapture ==
    mouse_pressed =>
        IF IsSome(edgeRead)
          THEN mouse_position = edgeRead[1]
          ELSE mouse_position = Leftover

W_C9_HeldWithFreshCapture ==
    /\ mouse_pressed /\ IsSome(edgeRead)
    /\ mouse_position = edgeRead[1]
    /\ mouse_position # startPos
    /\ cursor # mouse_position

(* C10 idle ticks are no-ops: a tick that starts without held and does not *)
(* observe in_scope AND pressed reads and writes no position and leaves    *)
(* held and the captured position alone.                                   *)
T_C10_IdleTickNoOp ==
    (TickDone /\ ~startHeld /\ ~PressedInScope) =>
        /\ Reads = 0
        /\ Writes = 0
        /\ ~mouse_pressed
        /\ mouse_position = startPos

W_C10_IdleOutOfScopeButtonDown ==
    /\ TickDone /\ ~startHeld /\ UnwatchedFocus
    /\ keyDown
    /\ Writes = 0 /\ ~mouse_pressed
    /\ IsSome(lastGood)

----------------------------------------------------------------------------
(* C11 configuration error is fatal before the loop: main has exited only  *)
(* for a --button outside {1, 2, 3}, with the error logged and no probe    *)
(* call, tick or state change made; with 1, 2, 3 the loop is entered and   *)
(* it polls the left, right and middle button respectively.                *)
T_C11_InvalidButtonIsFatal ==
    /\ pc = "exited" =>
          /\ opts_button \notin {1, 2, 3}
          /\ logged = << LogError("Invalid button value") >>
          /\ calls = << >>
          /\ lastSleep = None
          /\ ~mouse_pressed /\ mouse_position = << 0, 0 >>
    /\ pc \notin {"parse", "exited"} =>
          /\ opts_button \in {1, 2, 3}
          /\ button = CASE opts_button = 1 -> LEFT_MOUSE_BUTTON
                        [] opts_button = 2 -> RIGHT_MOUSE_BUTTON
                        [] opts_button = 3 -> MIDDLE_MOUSE_BUTTON
          /\ \A i \in 1 .. Len(calls) : calls[i].op = "button" => calls[i].arg = button

W_C11_ExitedOnInvalidButton ==
    /\ pc = "exited"
    /\ opts_button > 3
    /\ keyDown
    /\ foreground = "Game.exe"

----------------------------------------------------------------------------
(* The steps of main itself, without the operating system's *)
ProgStep ==
    \/ ParseOk
    \/ ParseInvalid
    \/ FocusStep
    \/ ButtonStep
    \/ CaptureStep
    \/ ReleaseStep
    \/ FocusLostStep
    \/ SleepStep

LoopEntered == button # 0

(* C12 loop resilience: once the loop is entered main never leaves it and  *)
(* always has a next step, whatever the probes returned; every step of a   *)
(* tick makes one more probe call and a tick makes at most three, so every *)
(* tick reaches its sleep; the sleep lasts the configured interval and is  *)
(* followed by the next tick.                                              *)
T_C12_LoopResilience ==
    /\ [](LoopEntered =>
            /\ pc \in {"focus", "button", "capture", "release", "focus_lost", "sleep"}
            /\ ENABLED ProgStep
            /\ Len(calls) <= 3
            /\ (pc = "focus") <=> (Len(calls) = 0)
            /\ IsSome(lastSleep) => lastSleep = Some(interval))
    /\ [][(LoopEntered /\ pc' # pc) =>
            \/ pc = "sleep" /\ pc' = "focus" /\ lastSleep' = Some(interval)
            \/ pc # "sleep" /\ Len(calls') = Len(calls) + 1]_vars

W_C12_TickAfterFailures ==
    /\ LoopEntered
    /\ lastSleep = Some(interval)
    /\ FocusFailed
    /\ pc = "sleep"
    /\ mouse_pressed /\ ~IsSome(edgeRead)

----------------------------------------------------------------------------
ReadFailed == \E i \in ReadIdx : ~IsSome(calls[i].res)
ErrorLogged == \E i \in 1 .. Len(logged) : logged[i].level = "error"

(* C13 as stated: a tick whose capture-edge read failed has set held, kept *)
(* the captured position, read only once, and logged the read error with   *)
(* error severity.                                                         *)
CE_C13_ReadFailureReported ==
    ReadFailed =>
        /\ mouse_pressed
        /\ mouse_position = startPos
        /\ Reads = 1
        /\ ErrorLogged

----------------------------------------------------------------------------
(* C14 as stated: get_active_process releases the process handle it opened *)
(* on every path, so no handle is open once the focus query has returned   *)
(* and between ticks.                                                      *)
CE_C14_NoHandleLeftOpen ==
    pc # "focus" => handles = 0

----------------------------------------------------------------------------
(* C15 as stated: the button probe returns true exactly when the button is *)
(* physically down at the moment of the call, so a capture edge is only    *)
(* taken with the button down at the poll.                                 *)
CE_C15_ButtonProbeIsSnapshot ==
    \A i \in 1 .. Len(calls) :
       calls[i].op = "button" => (calls[i].res <=> calls[i].down)

----------------------------------------------------------------------------
(* The probe calls of a tick come in the order focus, button, read: the    *)
(* focus query is the first call of every tick and the only one at that    *)
(* place, a button query is the second call, a position read the third     *)
(* call and made after a button query.                                     *)
ProbeOrder ==
    /\ pc \in {"button", "capture", "release", "focus_lost", "sleep"} => Len(calls) >= 1
    /\ \A i \in 1 .. Len(calls) :
          /\ (calls[i].op = "focus") <=> (i = 1)
          /\ calls[i].op = "button" => i = 2
          /\ calls[i].op = "read" => (i = 3 /\ calls[2].op = "button")

(* C16 as stated: the probes are called in the order focus, button, read,  *)
(* and the button is queried on every tick.                                *)
CE_C16_ButtonPolledEveryTick ==
    /\ ProbeOrder
    /\ TickDone => ButtonRead

(* C16 amended: the probes are called in the order focus, button, read;    *)
(* the focus is queried on every tick, the button only on the ticks whose  *)
(* focus is in the watched set, and on all of those.                       *)
T_C16_ProbeOrder ==
    /\ ProbeOrder
    /\ TickDone => (ButtonRead <=> InScope)

W_C16_FocusButtonRead ==
    /\ TickDone
    /\ Len(calls) = 3
    /\ calls[1].op = "focus" /\ calls[2].op = "button" /\ calls[3].op = "read"
    /\ keyDown

----------------------------------------------------------------------------
(* C17 value written on release: every set_mouse_position call is made     *)
(* with the result of the latest successful get_mouse_position of the run, *)
(* or with (0, 0) when no read has succeeded yet.                          *)
T_C17_WrittenValue ==
    \A i \in WriteIdx : calls[i].arg = Leftover

W_C17_WritesEarlierCapture ==
    /\ Writes = 1
    /\ ~IsSome(edgeRead)
    /\ IsSome(lastGood)
    /\ \A i \in WriteIdx : calls[i].arg = lastGood[1] /\ calls[i].arg # << 0, 0 >>

----------------------------------------------------------------------------
(* C18 reads and writes alternate: position reads and position writes      *)
(* alternate over the run, starting with a read, so the reads attempted    *)
(* exceed the writes attempted by 0 or 1 at all times; no tick makes more  *)
(* than one position call.                                                 *)
T_C18_ReadsWritesAlternate ==
    /\ posBalance \in {0, 1}
    /\ Reads + Writes <= 1

W_C18_SecondReadAfterWrite ==
    /\ TickDone
    /\ Reads = 1
    /\ posBalance = 1
    /\ ~IsSome(edgeRead) /\ IsSome(lastGood)
    /\ cursor = lastGood[1]

----------------------------------------------------------------------------
(* C19 re-capture after focus loss: when the button has stayed down since  *)
(* a focus-loss release, the first tick that again observes in_scope AND   *)
(* pressed is a capture edge: it sets held, reads the position once and    *)
(* remembers what that read returned.                                      *)
T_C19_RecaptureAfterFocusLoss ==
    (TickDone /\ downSinceLoss /\ ~startHeld /\ PressedInScope) =>
        /\ mouse_pressed
        /\ Reads = 1
        /\ \A i \in ReadIdx : calls[i].res = edgeRead
        /\ IsSome(edgeRead) => mouse_position = edgeRead[1]

W_C19_SecondCaptureOfOnePress ==
    /\ TickDone /\ downSinceLoss /\ ~startHeld /\ PressedInScope
    /\ keyDown
    /\ mouse_pressed
    /\ IsSome(edgeRead)
    /\ mouse_position # startPos
    /\ startPos # << 0, 0 >>

====
